---- MODULE Spec2Model ----
(***************************************************************************)
(* Ingestion and retrieval core of highforce: content-hash deduplication,  *)
(* email-thread supersession in the vector index, and tenant-filtered      *)
(* retrieval.  The relational store (documents table) and the vector index *)
(* (Qdrant collection) are the shared state; every call of                 *)
(* ingest_document_universal is a process whose remote calls interleave    *)
(* with those of the other calls.                                          *)
(***************************************************************************)
EXTENDS Integers, Sequences, FiniteSets, TLC

\* ------------------------------------------------------------------ bounds

\* Timestamps are counted in ticks; TicksPerSecond ticks make one second, so
\* that a datetime can carry a fraction of a second.
TicksPerSecond == 4

\* At most MaxIngests calls of ingest_document_universal are started in a run.
MaxIngests == 3

\* The same budget of calls in the runs that also issue queries.
MaxIngestsQ == 2

\* Characters of text per chunk (the chunk size, scaled to the texts in use).
ChunkLen == 4

\* Raw similarity scores range over -1..MaxScore (in units of the score scale).
MaxScore == 1

\* Candidate timestamps range over 1..MaxPeriods decay periods after the epoch.
MaxPeriods == 2

\* At most MaxCands candidates in a list handed to the recency postprocessor.
MaxCands == 2

\* Calendar dates are day numbers 1..MaxDate after the epoch.
MaxDate == 2

\* Texts handed to normalize_content have at most MaxTextLen characters.
MaxTextLen == 3

\* The master dashboard grants the override at most MaxGrants times.
MaxGrants == 1

\* At most MaxJobs sync jobs are enqueued in the runs of the sync tasks.
MaxJobs == 2

\* ------------------------------------------------------- program constants

\* dramatiq.actor(max_retries=3)
max_retries == 3

\* created_at_timestamp = None (no timestamp could be derived).
NoTs == -1

\* Candidate width of the similarity search.
SIMILARITY_TOP_K == 20

\* metadata without the key created_at_timestamp: dict.get gives its default.
NoKey == -2

\* 60 * 60 * 24
SecondsPerDay == 86400

\* Decay for document types without a profile.
default_decay_days == 90

\* timedelta(days=30): the default window of a query.
DefaultWindowDays == 30

\* The postprocessor logs the first five nodes before and after the decay.
LogTop == 5

\* ------------------------------------------------------------------ inputs

Tenants == {"X", "Y"}

\* The sync workers; each runs one call of ingest_document_universal at a time.
Workers == {"w1", "w2"}

\* The arguments of the calls of ingest_document_universal a run draws from.
\* ts is source_created_at in ticks (NoTs: not supplied); thread_id is
\* metadata['thread_id'] as a sequence of characters (<<>>: missing or empty).
T1 == <<"t", "1">>
T2 == <<"t", "2">>
Blank == <<" ">>

Msg(c, sid, dt, th, t, txt) ==
    [company_id |-> c, source |-> "gmail", source_id |-> sid, document_type |-> dt,
     thread_id |-> th, ts |-> t, content |-> txt]

\* The calls made directly, each with a source_id of its own.
DirectCalls ==
    [ m1 |-> Msg("X", "s1", "email", T1, 2, <<"a", " ", "b">>),
      m2 |-> Msg("X", "s2", "email", T1, 7, <<"A", " ", "\t", "b", "\n">>),
      m3 |-> Msg("X", "s3", "email", T1, 6, <<"b">>),
      m4 |-> Msg("Y", "s1", "email", T1, 12, <<"a", "b">>),
      m5 |-> Msg("X", "s5", "attachment", T1, 7, <<"b", "a">>),
      m6 |-> Msg("X", "s6", "email", Blank, 13, <<"a">>),
      m7 |-> Msg("X", "s7", "email", T1, NoTs, <<"b", "b">>),
      m8 |-> Msg("X", "s8", "email", T2, 3, <<"a", "a">>),
      m9 |-> Msg("X", "s9", "email", <<>>, 14, <<"B">>) ]

MsgIds == DOMAIN DirectCalls

\* ------------------------------------------------- content fingerprinting

Whitespace == {" ", "\t", "\n"}

\* str.lower() on one character of the alphabet in use.
Lower(ch) == IF ch = "A" THEN "a" ELSE IF ch = "B" THEN "b" ELSE ch

\* re.sub(r'\s+', ' ', s): every maximal run of whitespace becomes one space.
RECURSIVE CollapseWs(_)
CollapseWs(s) ==
    IF s = <<>> THEN <<>>
    ELSE IF Head(s) \in Whitespace
         THEN IF Len(s) > 1 /\ s[2] \in Whitespace
              THEN CollapseWs(Tail(s))
              ELSE <<" ">> \o CollapseWs(Tail(s))
         ELSE <<Head(s)>> \o CollapseWs(Tail(s))

\* str.strip(): leading and trailing whitespace removed.
RECURSIVE LStrip(_)
LStrip(s) == IF s # <<>> /\ Head(s) \in Whitespace THEN LStrip(Tail(s)) ELSE s

RECURSIVE RStrip(_)
RStrip(s) ==
    IF s # <<>> /\ s[Len(s)] \in Whitespace THEN RStrip(SubSeq(s, 1, Len(s) - 1)) ELSE s

Strip(s) == RStrip(LStrip(s))

\* The normalization without the final strip().
normalize_content_NoStrip(content) ==
    CollapseWs([i \in 1..Len(content) |-> Lower(content[i])])

\* DedupeService.normalize_content: lower(), collapse whitespace, strip().
normalize_content(content) ==
    Strip(CollapseWs([i \in 1..Len(content) |-> Lower(content[i])]))

\* SHA256 of the normalized text; the digest is modelled as an injective tag.
compute_content_hash(content) == <<"sha256", normalize_content(content)>>

\* The lookup error taken as a match: every row of the tenant is a duplicate.
check_duplicate_FailClosed(docs, company_id, content_hash, source, lookup_ok) ==
    {d \in docs : /\ d.company_id = company_id
                  /\ (lookup_ok => d.content_hash = content_hash)
                  /\ (source # "" => d.source = source)}

\* DedupeService.check_duplicate: a row of the tenant with this hash, fail open.
check_duplicate(docs, company_id, content_hash, source, lookup_ok) ==
    IF ~lookup_ok THEN {}
    ELSE {d \in docs : /\ d.company_id = company_id
                       /\ d.content_hash = content_hash
                       /\ (source # "" => d.source = source)}

\* should_ingest_document: <<should_ingest, content_hash>>.
should_ingest_document(docs, company_id, content, source, skip_dedupe, lookup_ok) ==
    IF skip_dedupe THEN <<TRUE, compute_content_hash(content)>>
    ELSE IF check_duplicate(docs, company_id, compute_content_hash(content),
                            source, lookup_ok) # {}
         THEN <<FALSE, compute_content_hash(content)>>
         ELSE <<TRUE, compute_content_hash(content)>>

\* The skip_dedupe argument ingest_document_universal passes.
SkipDedupeArg == TRUE

\* ------------------------------------------------------ canonical ids

\* The normalized emails a provider sync hands to ingest_to_cortex.
Email(c, mid, th, t, body) ==
    [company_id |-> c, source |-> "gmail", message_id |-> mid, thread_id |-> th,
     received_datetime |-> t, full_body |-> body]

Emails ==
    [ e1 |-> Email("X", "g1", T1, 2, <<"a", " ", "b">>),
      e2 |-> Email("X", "g2", T1, 7, <<"b">>),
      e3 |-> Email("Y", "g3", T1, 6, <<"a", "b">>),
      e4 |-> Email("X", "g4", Blank, 13, <<"a">>),
      e5 |-> Email("X", "g5", T2, 3, <<"a", "a">>) ]

EmailIds == DOMAIN Emails

\* The characters of an id put into an f-string.
RECURSIVE Join(_)
Join(s) == IF s = <<>> THEN "" ELSE Head(s) \o Join(Tail(s))

\* get_canonical_id: one id per conversation for gmail and outlook, the
\* message id when the thread id is missing or blank.
get_canonical_id(source, thread_id, fallback_id) ==
    IF source \in {"gmail", "outlook"} /\ thread_id # <<>> /\ Strip(thread_id) # <<>>
    THEN source \o ":thread:" \o Join(thread_id)
    ELSE fallback_id

\* ingest_to_cortex: the arguments it passes to ingest_document_universal.
IngestToCortex(email) ==
    Msg(email.company_id,
        get_canonical_id(email.source, email.thread_id, email.message_id),
        "email", email.thread_id, email.received_datetime, email.full_body)

\* The arguments of every call of ingest_document_universal, direct or
\* through ingest_to_cortex.
Messages == DirectCalls @@ [e \in EmailIds |-> IngestToCortex(Emails[e])]

CallIds == MsgIds \cup EmailIds

\* ------------------------------------------------------------------- state

VARIABLES
    documents,   \* the documents table: a set of rows
    index,       \* the vector index: a set of points (chunks with payload)
    pc,          \* per call of ingest_document_universal: its position
    status,      \* per call: the status it returned ("none" while running)
    doc,         \* per call: inserted_doc, the row its upsert returned
    toDelete,    \* per call: points_to_delete, the ids picked from the scroll
    deleted,     \* per call: the points its supersession delete removed
    ops,         \* per call: the index operations it has issued
    failed,      \* per call: the steps of it that raised
    written,     \* per call: the points its index write stored
    q,           \* the last query call and what it did
    connections,       \* the connections table: per provider, the company's row
    sync_permissions,  \* the company's row of the sync_permissions table
    sync_jobs,         \* the sync_jobs table: a sequence of rows, the id is the position
    req,               \* per request of POST /sync/initial/{provider}: its position
    task               \* per sync job: the run of its background task

vars == <<documents, index, pc, status, doc, toDelete, deleted, ops, failed, written, q,
          connections, sync_permissions, sync_jobs, req, task>>

ingestVars == <<documents, index, pc, status, doc, toDelete, deleted, ops, failed, written>>

syncVars == <<connections, sync_permissions, sync_jobs, req, task>>

NoDoc == [id |-> 0]

\* The providers POST /sync/initial/{provider} accepts.
valid_providers == {"outlook", "gmail", "drive", "quickbooks"}

\* The provider path parameters the requests of a run draw from.
RequestProviders == {"gmail", "outlook", "slack"}

\* The requests of POST /sync/initial/{provider}, all of one company.
ReqIds == {"r1", "r2", "r3"}

\* No row of the company for the provider in the connections table.
NoConnection == [exists |-> FALSE, can_manual_sync |-> FALSE]

\* A request that has not arrived yet.
NoRequest ==
    [pc |-> "idle", provider |-> "", can_sync |-> FALSE, reason |-> "", code |-> 0,
     locked_at_check |-> FALSE, override_at_check |-> "null",
     override_at_return |-> "null"]

\* The run state of a task whose message has just been enqueued.
NewTask ==
    [pc |-> "queued", retries |-> 0, sync |-> "none", raising |-> FALSE,
     was_completed |-> FALSE, completed_after |-> "none"]

NoQuery == [entry |-> "none"]

\* int(dt.timestamp()): whole seconds, the fraction dropped.
IntTimestamp(t) == IF t = NoTs THEN NoTs ELSE t \div TicksPerSecond

\* The row ingest_document_universal upserts for message m.
DocumentRow(m, id, content_hash) ==
    [id |-> id,
     company_id |-> Messages[m].company_id,
     source |-> Messages[m].source,
     source_id |-> Messages[m].source_id,
     document_type |-> Messages[m].document_type,
     content_hash |-> content_hash,
     source_created_at |-> Messages[m].ts,
     thread_id |-> Messages[m].thread_id,
     msg |-> m]

SameKey(d, m) ==
    /\ d.company_id = Messages[m].company_id
    /\ d.source = Messages[m].source
    /\ d.source_id = Messages[m].source_id

\* upsert(on_conflict='company_id,source,source_id'): the row of the key keeps
\* its id and takes the new values; a new key gets the next serial id.
UpsertId(docs, m) ==
    IF \E d \in docs : SameKey(d, m)
    THEN (CHOOSE d \in docs : SameKey(d, m)).id
    ELSE Cardinality(docs) + 1

\* A plain insert: the conflict target is not honoured.
Upsert_InsertOnly(docs, m, content_hash) ==
    docs \cup {DocumentRow(m, Cardinality(docs) + 1, content_hash)}

Upsert(docs, m, content_hash) ==
    {d \in docs : ~SameKey(d, m)} \cup {DocumentRow(m, UpsertId(docs, m), content_hash)}

\* Number of chunks the splitter makes of a text.
ChunkCount(content) == 1 + (Len(content) \div ChunkLen)

\* The points UniversalIngestionPipeline.ingest_document builds from a row:
\* the payload is the denormalized copy of the row's metadata.
Points(row) ==
    { [id |-> <<row.msg, k>>,
       document_id |-> row.id,
       company_id |-> row.company_id,
       document_type |-> row.document_type,
       thread_id |-> row.thread_id,
       created_at_timestamp |-> IntTimestamp(row.source_created_at),
       msg |-> row.msg] : k \in 1..ChunkCount(Messages[row.msg].content) }

\* The ingestion pipeline runs with a docstore: the chunks stored for the
\* same doc_id are replaced by the new ones.
PipelineRun(idx, row) ==
    {p \in idx : p.document_id # row.id} \cup Points(row)

\* The guard without the strip() test: a blank thread_id passes.
ThreadDedupGuard_NoStrip(m) ==
    /\ Messages[m].thread_id # <<>>
    /\ Messages[m].document_type = "email"
    /\ Messages[m].ts # NoTs

\* The guard of the thread deduplication step.
ThreadDedupGuard(m) ==
    /\ Messages[m].thread_id # <<>>
    /\ Strip(Messages[m].thread_id) # <<>>
    /\ Messages[m].document_type = "email"
    /\ Messages[m].ts # NoTs

\* The scroll filter without the company_id condition.
ScrollFilter_NoTenant(p, m) ==
    /\ p.thread_id = Messages[m].thread_id
    /\ p.document_type = "email"

\* The scroll filter: thread_id, company_id and document_type == 'email'.
ScrollFilter(p, m) ==
    /\ p.thread_id = Messages[m].thread_id
    /\ p.company_id = Messages[m].company_id
    /\ p.document_type = "email"

Scroll(idx, m) == {p \in idx : ScrollFilter(p, m)}

\* new_timestamp keeps its fraction; old_timestamp is the stored whole second.
IsOlder(old_timestamp, new_timestamp) ==
    old_timestamp * TicksPerSecond < new_timestamp

\* Comparing None with a float raises TypeError.
CompareRaises(points) == \E p \in points : p.created_at_timestamp = NoTs

PointsToDelete(points, m) ==
    {p.id : p \in {x \in points : IsOlder(x.created_at_timestamp, Messages[m].ts)}}

Started == {m \in CallIds : pc[m] # "idle"}
InFlight == {m \in CallIds : pc[m] \notin {"idle", "done"}}

Init ==
    /\ documents = {}
    /\ index = {}
    /\ pc = [m \in CallIds |-> "idle"]
    /\ status = [m \in CallIds |-> "none"]
    /\ doc = [m \in CallIds |-> NoDoc]
    /\ toDelete = [m \in CallIds |-> {}]
    /\ deleted = [m \in CallIds |-> {}]
    /\ ops = [m \in CallIds |-> {}]
    /\ failed = [m \in CallIds |-> {}]
    /\ written = [m \in CallIds |-> {}]
    /\ q = NoQuery
    /\ connections = [p \in valid_providers |-> NoConnection]
    /\ sync_permissions = [can_manual_sync_override |-> "null", grants |-> 0]
    /\ sync_jobs = <<>>
    /\ req = [r \in ReqIds |-> NoRequest]
    /\ task = <<>>

\* Steps 1-3: fingerprint the content, then upsert the row.
Begin(m, budget) ==
    /\ pc[m] = "idle"
    /\ Cardinality(Started) < budget
    /\ Cardinality(InFlight) < Cardinality(Workers)
    /\ \E lookup_ok \in BOOLEAN, upsert_ok \in BOOLEAN :
        LET r == should_ingest_document(documents, Messages[m].company_id,
                                        Messages[m].content, Messages[m].source,
                                        SkipDedupeArg, lookup_ok)
        IN  IF ~r[1]
            THEN /\ pc' = [pc EXCEPT ![m] = "done"]
                 /\ status' = [status EXCEPT ![m] = "skipped"]
                 /\ UNCHANGED <<documents, doc, failed>>
            ELSE IF ~upsert_ok
            THEN /\ pc' = [pc EXCEPT ![m] = "done"]
                 /\ status' = [status EXCEPT ![m] = "error"]
                 /\ failed' = [failed EXCEPT ![m] = @ \cup {"upsert"}]
                 /\ UNCHANGED <<documents, doc>>
            ELSE /\ documents' = Upsert(documents, m, r[2])
                 /\ doc' = [doc EXCEPT ![m] = DocumentRow(m, UpsertId(documents, m), r[2])]
                 /\ pc' = [pc EXCEPT ![m] = IF ThreadDedupGuard(m) THEN "dedup" ELSE "write"]
                 /\ UNCHANGED <<status, failed>>
    /\ UNCHANGED <<index, toDelete, deleted, ops, written, q, syncVars>>

\* The error of the step reaching the handler of the whole call.
OnDedupError_Abort == [pc |-> "done", status |-> "error"]

\* A failed scroll empties all_existing_points, and the handler around the
\* whole step logs any other error; either way the call goes on to step 4.
OnDedupError == [pc |-> "write", status |-> "none"]

\* Step 3.7, first half: scroll the thread's chunks and pick the older ones.
ThreadScroll(m) ==
    /\ pc[m] = "dedup"
    /\ ops' = [ops EXCEPT ![m] = @ \cup {"scroll"}]
    /\ \E scroll_ok \in BOOLEAN :
        IF ~scroll_ok
        THEN /\ failed' = [failed EXCEPT ![m] = @ \cup {"scroll"}]
             /\ pc' = [pc EXCEPT ![m] = OnDedupError.pc]
             /\ status' = [status EXCEPT ![m] = OnDedupError.status]
             /\ UNCHANGED toDelete
        ELSE IF CompareRaises(Scroll(index, m))
        THEN /\ failed' = [failed EXCEPT ![m] = @ \cup {"compare"}]
             /\ pc' = [pc EXCEPT ![m] = OnDedupError.pc]
             /\ status' = [status EXCEPT ![m] = OnDedupError.status]
             /\ UNCHANGED toDelete
        ELSE /\ toDelete' = [toDelete EXCEPT ![m] = PointsToDelete(Scroll(index, m), m)]
             /\ pc' = [pc EXCEPT ![m] =
                         IF PointsToDelete(Scroll(index, m), m) # {} THEN "delete" ELSE "write"]
             /\ UNCHANGED <<failed, status>>
    /\ UNCHANGED <<documents, index, doc, deleted, written, q, syncVars>>

\* Step 3.7, second half: delete the picked points by id.
ThreadDelete(m) ==
    /\ pc[m] = "delete"
    /\ ops' = [ops EXCEPT ![m] = @ \cup {"delete"}]
    /\ \E delete_ok \in BOOLEAN :
        IF delete_ok
        THEN /\ index' = {p \in index : p.id \notin toDelete[m]}
             /\ deleted' = [deleted EXCEPT ![m] = {p \in index : p.id \in toDelete[m]}]
             /\ pc' = [pc EXCEPT ![m] = "write"]
             /\ UNCHANGED <<failed, status>>
        ELSE /\ failed' = [failed EXCEPT ![m] = @ \cup {"delete"}]
             /\ pc' = [pc EXCEPT ![m] = OnDedupError.pc]
             /\ status' = [status EXCEPT ![m] = OnDedupError.status]
             /\ UNCHANGED <<index, deleted>>
    /\ UNCHANGED <<documents, doc, toDelete, written, q, syncVars>>

\* Step 4: chunk, embed and store the row's text in the index.
IndexWrite(m) ==
    /\ pc[m] = "write"
    /\ ops' = [ops EXCEPT ![m] = @ \cup {"write"}]
    /\ \E write_ok \in BOOLEAN :
        IF write_ok
        THEN /\ index' = PipelineRun(index, doc[m])
             /\ written' = [written EXCEPT ![m] = Points(doc[m])]
             /\ status' = [status EXCEPT ![m] = "success"]
             /\ UNCHANGED failed
        ELSE /\ failed' = [failed EXCEPT ![m] = @ \cup {"write"}]
             /\ status' = [status EXCEPT ![m] = "error"]
             /\ UNCHANGED <<index, written>>
    /\ pc' = [pc EXCEPT ![m] = "done"]
    /\ UNCHANGED <<documents, doc, toDelete, deleted, q, syncVars>>

\* ------------------------------------------------------------------ queries

\* filters=None (or an empty dict): no key at all.
NoFilters == <<>>

\* The filters argument a caller of HybridQueryEngine.query may pass.
FilterArgs == {NoFilters, [source |-> "gmail"]} \cup {[company_id |-> t] : t \in Tenants}

\* filter_list left empty whatever the caller gave.
FilterList_Empty(filters) == {}

\* filter_list of query(): the company_id condition, when the caller gave one.
FilterList(filters) ==
    IF filters # NoFilters /\ "company_id" \in DOMAIN filters
    THEN {[key |-> "company_id", value |-> filters.company_id]}
    ELSE {}

\* The points a similarity search under the metadata filters can match.
Matching(idx, filter_list) ==
    {p \in idx : \A f \in filter_list : f.key = "company_id" => p.company_id = f.value}

\* The candidate sets a search of width k can return.
TopK(S, k) == IF Cardinality(S) <= k THEN {S} ELSE {T \in SUBSET S : Cardinality(T) = k}

\* HybridQueryEngine.query: the search it issues and the result it returns.
\* With candidates, the code after synthesis reads names that are not defined
\* in query() and the handler returns the error result.
EngineQuery(filters, nodes, search_ok) ==
    [filters |-> filters,
     searched |-> TRUE,
     search_failed |-> ~search_ok,
     search_filter |-> FilterList(filters),
     retrieved |-> IF search_ok THEN nodes ELSE {},
     source_nodes |-> {},
     error |-> ~search_ok \/ nodes # {},
     raised |-> FALSE]

\* HybridQueryEngine.chat: calls self.query(message), without filters; the
\* result of query() has no 'metadata' key and the handler returns the error
\* result.
EngineChat(nodes, search_ok) ==
    [EngineQuery(NoFilters, nodes, search_ok) EXCEPT !.error = TRUE]

\* HybridQueryEngine.retrieve_only: retrieval through the prebuilt query
\* engine, which holds no filters; the nodes are returned, [] on error.
RetrieveOnly(nodes, search_ok) ==
    [filters |-> NoFilters,
     searched |-> TRUE,
     search_failed |-> ~search_ok,
     search_filter |-> {},
     retrieved |-> IF search_ok THEN nodes ELSE {},
     source_nodes |-> IF search_ok THEN nodes ELSE {},
     error |-> FALSE,
     raised |-> FALSE]

\* The filters POST /api/v1/search hands to engine.query for a tenant.
SearchRouteFilters(tenant) == NoFilters

\* POST /api/v1/search after the engine returned: the response is built from
\* result['answer'] and result['source_nodes'] with success=True; the 'error'
\* key of the result is not read.
SearchRouteResponse(result) == [result EXCEPT !.error = FALSE]

\* POST /api/v1/chat: engine.chat is called with a filters keyword it does not
\* accept; the call raises before any retrieval and the route answers 500.
ChatRoute(tenant) ==
    [filters |-> [company_id |-> tenant],
     searched |-> FALSE,
     search_failed |-> FALSE,
     search_filter |-> {},
     retrieved |-> {},
     source_nodes |-> {},
     error |-> TRUE,
     raised |-> TRUE]

Query(entry, tenant, filters) ==
    /\ q = NoQuery
    /\ \E search_ok \in BOOLEAN :
        LET f == CASE entry = "engine_query" -> filters
                   [] entry = "search_route" -> SearchRouteFilters(tenant)
                   [] OTHER -> NoFilters
        IN  \E nodes \in TopK(Matching(index, FilterList(f)), SIMILARITY_TOP_K) :
            LET r == CASE entry = "engine_query" -> EngineQuery(f, nodes, search_ok)
                       [] entry = "search_route" ->
                            SearchRouteResponse(EngineQuery(f, nodes, search_ok))
                       [] entry = "engine_chat" -> EngineChat(nodes, search_ok)
                       [] entry = "retrieve_only" -> RetrieveOnly(nodes, search_ok)
                       [] OTHER -> ChatRoute(tenant)
            IN  q' = [entry |-> entry, tenant |-> tenant] @@ r
    /\ UNCHANGED <<ingestVars, syncVars>>

\* The caller takes the result; the engine keeps nothing of the call.
QueryReturn ==
    /\ q # NoQuery
    /\ q' = NoQuery
    /\ UNCHANGED <<ingestVars, syncVars>>

Entries == {"search_route", "chat_route", "engine_chat", "retrieve_only"}

\* Ingestion alone.
Next ==
    \/ \E m \in MsgIds : Begin(m, MaxIngests)
    \/ \E m \in MsgIds : ThreadScroll(m)
    \/ \E m \in MsgIds : ThreadDelete(m)
    \/ \E m \in MsgIds : IndexWrite(m)

Spec == Init /\ [][Next]_vars

\* Ingestion interleaved with queries.
NextQ ==
    \/ \E m \in MsgIds : Begin(m, MaxIngestsQ)
    \/ \E m \in MsgIds : ThreadScroll(m)
    \/ \E m \in MsgIds : ThreadDelete(m)
    \/ \E m \in MsgIds : IndexWrite(m)
    \/ \E f \in FilterArgs : Query("engine_query", "", f)
    \/ \E t \in Tenants, e \in Entries : Query(e, t, NoFilters)
    \/ QueryReturn

QSpec == Init /\ [][NextQ]_vars

\* A payload without the key company_id.
NoCompany == ""

\* The points UniversalIngestionPipeline.ingest_documents_batch builds from a
\* row: its metadata has document_id, title, source, document_type, tenant_id,
\* source_id, created_at and created_at_timestamp, and neither company_id nor
\* thread_id.
BatchPoints(row) ==
    { [id |-> <<row.msg, k>>,
       document_id |-> row.id,
       company_id |-> NoCompany,
       document_type |-> row.document_type,
       thread_id |-> <<>>,
       created_at_timestamp |-> IntTimestamp(row.source_created_at),
       msg |-> row.msg] : k \in 1..ChunkCount(Messages[row.msg].content) }

\* ingest_documents_batch on rows of the documents table: one run of the
\* ingestion pipeline over all of them, all or nothing.
IngestDocumentsBatch(rows) ==
    /\ rows # {}
    /\ \E batch_ok \in BOOLEAN :
        index' = IF batch_ok
                 THEN {p \in index : \A r \in rows : p.document_id # r.id}
                      \cup UNION {BatchPoints(r) : r \in rows}
                 ELSE index
    /\ UNCHANGED <<documents, pc, status, doc, toDelete, deleted, ops, failed, written, q, syncVars>>

\* Ingestion, one message per worker, and batch ingestion of stored rows.
NextBatch ==
    \/ \E m \in MsgIds : Begin(m, Cardinality(Workers))
    \/ \E m \in MsgIds : ThreadScroll(m)
    \/ \E m \in MsgIds : ThreadDelete(m)
    \/ \E m \in MsgIds : IndexWrite(m)
    \/ \E rows \in SUBSET documents : IngestDocumentsBatch(rows)

BatchSpec == Init /\ [][NextBatch]_vars

\* The emails of a provider sync, each ingested through ingest_to_cortex.
NextCortex ==
    \/ \E m \in EmailIds : Begin(m, MaxIngests)
    \/ \E m \in EmailIds : ThreadScroll(m)
    \/ \E m \in EmailIds : ThreadDelete(m)
    \/ \E m \in EmailIds : IndexWrite(m)

CortexSpec == Init /\ [][NextCortex]_vars

\* ------------------------------------------------------------ initial sync

\* check_can_manual_sync: the decision and its reason.  Without a connection
\* row the function returns before it looks at the override.  The lookup of
\* the override runs inside a try whose handler only logs: when it raises,
\* can_sync_override stays False.
check_can_manual_sync(conn, override, lookup_ok) ==
    IF ~conn.exists THEN [can_sync |-> TRUE, reason |-> "first_sync"]
    ELSE LET can_sync_locally == conn.can_manual_sync
             can_sync_override == lookup_ok /\ override = "true"
         IN  IF can_sync_locally /\ ~can_sync_override
             THEN [can_sync |-> TRUE, reason |-> "local_permission"]
             ELSE IF can_sync_override /\ ~can_sync_locally
             THEN [can_sync |-> TRUE, reason |-> "admin_override"]
             ELSE IF can_sync_locally /\ can_sync_override
             THEN [can_sync |-> TRUE, reason |-> "both_allowed"]
             ELSE [can_sync |-> FALSE, reason |-> "locked"]

\* The master dashboard sets can_manual_sync_override = true for the company.
AdminGrant ==
    /\ sync_permissions.grants < MaxGrants
    /\ sync_permissions' = [can_manual_sync_override |-> "true",
                            grants |-> sync_permissions.grants + 1]
    /\ UNCHANGED <<ingestVars, q, connections, sync_jobs, req, task>>

\* trigger_initial_sync up to the permission check: 400 for a provider that
\* is not valid, 403 when the check says locked.
CheckPermission(r) ==
    /\ req[r].pc = "idle"
    /\ \E provider \in RequestProviders, lookup_ok \in BOOLEAN :
        IF provider \notin valid_providers
        THEN req' = [req EXCEPT ![r] =
                        [NoRequest EXCEPT !.pc = "done", !.provider = provider,
                                          !.code = 400]]
        ELSE LET d == check_can_manual_sync(connections[provider],
                          sync_permissions.can_manual_sync_override, lookup_ok)
             IN  req' = [req EXCEPT ![r] =
                     [pc |-> IF d.can_sync THEN "lock" ELSE "done",
                      provider |-> provider,
                      can_sync |-> d.can_sync,
                      reason |-> d.reason,
                      code |-> IF d.can_sync THEN 0 ELSE 403,
                      locked_at_check |-> /\ connections[provider].exists
                                          /\ ~connections[provider].can_manual_sync,
                      override_at_check |-> sync_permissions.can_manual_sync_override,
                      override_at_return |-> "null"]]
    /\ UNCHANGED <<ingestVars, q, connections, sync_permissions, sync_jobs, task>>

\* The upsert that locks manual sync for (company_id, provider_key).
LockConnection(r) ==
    /\ req[r].pc = "lock"
    /\ connections' = [connections EXCEPT ![req[r].provider] =
                          [exists |-> TRUE, can_manual_sync |-> FALSE]]
    /\ req' = [req EXCEPT ![r].pc =
                  IF req[r].reason = "admin_override" THEN "clear" ELSE "job"]
    /\ UNCHANGED <<ingestVars, q, sync_permissions, sync_jobs, task>>

\* reason == "admin_override": the override is set to None; an error of the
\* update is logged and the request goes on.
ClearOverride(r) ==
    /\ req[r].pc = "clear"
    /\ \E clear_ok \in BOOLEAN :
        sync_permissions' =
            IF clear_ok
            THEN [sync_permissions EXCEPT !.can_manual_sync_override = "null"]
            ELSE sync_permissions
    /\ req' = [req EXCEPT ![r].pc = "job"]
    /\ UNCHANGED <<ingestVars, q, connections, sync_jobs, task>>

\* The insert into sync_jobs with status queued and the send of the task.
InsertJob(jobs, job_type) == Append(jobs, [job_type |-> job_type, status |-> "queued"])

\* The sync job is created, the background task enqueued, and the request
\* answered with status started.
CreateJob(r) ==
    /\ req[r].pc = "job"
    /\ sync_jobs' = InsertJob(sync_jobs, req[r].provider)
    /\ task' = Append(task, NewTask)
    /\ req' = [req EXCEPT ![r].pc = "done", ![r].code = 200,
                          ![r].override_at_return =
                              sync_permissions.can_manual_sync_override]
    /\ UNCHANGED <<ingestVars, q, connections, sync_permissions>>

\* Concurrent requests of POST /sync/initial/{provider}; each remote call of
\* a request is one step.
NextSync ==
    \/ AdminGrant
    \/ \E r \in ReqIds : CheckPermission(r)
    \/ \E r \in ReqIds : LockConnection(r)
    \/ \E r \in ReqIds : ClearOverride(r)
    \/ \E r \in ReqIds : CreateJob(r)

SyncSpec == Init /\ [][NextSync]_vars

\* -------------------------------------------------------------- sync tasks

\* GET /sync/jobs/{job_id}: the status of the job as stored.
get_job_status(j) == sync_jobs[j].status

SetStatus(j, new_status) == [sync_jobs EXCEPT ![j].status = new_status]

\* A permitted request inserts the job with status queued and sends the task
\* of its provider.
Enqueue(provider) ==
    /\ Len(sync_jobs) < MaxJobs
    /\ sync_jobs' = InsertJob(sync_jobs, provider)
    /\ task' = Append(task, NewTask)
    /\ UNCHANGED <<ingestVars, q, connections, sync_permissions, req>>

\* A run of the actor begins: the job is set to running.  The updates of
\* sync_jobs are taken to succeed.
TaskStart(j) ==
    /\ j <= Len(task)
    /\ task[j].pc = "queued"
    /\ sync_jobs' = SetStatus(j, "running")
    /\ task' = [task EXCEPT ![j].pc = "running", ![j].sync = "none",
                            ![j].raising = FALSE]
    /\ UNCHANGED <<ingestVars, q, connections, sync_permissions, req>>

\* asyncio.run of the sync returns a result or raises.
TaskSync(j) ==
    /\ j <= Len(task)
    /\ task[j].pc = "running"
    /\ \E returned \in BOOLEAN :
        task' = [task EXCEPT ![j].sync = IF returned THEN "returned" ELSE "raised",
                             ![j].pc = IF returned THEN "completing" ELSE "failing"]
    /\ UNCHANGED <<ingestVars, q, connections, sync_permissions, sync_jobs, req>>

\* The sync returned: the job is set to completed and the result returned.
TaskComplete(j) ==
    /\ j <= Len(task)
    /\ task[j].pc = "completing"
    /\ sync_jobs' = SetStatus(j, "completed")
    /\ task' = [task EXCEPT ![j].pc = "cleanup", ![j].was_completed = TRUE,
                            ![j].completed_after = task[j].sync]
    /\ UNCHANGED <<ingestVars, q, connections, sync_permissions, req>>

\* except Exception: the job is set to failed and the exception raised again
\* for the retry logic.
TaskFail(j) ==
    /\ j <= Len(task)
    /\ task[j].pc = "failing"
    /\ sync_jobs' = SetStatus(j, "failed")
    /\ task' = [task EXCEPT ![j].pc = "cleanup", ![j].raising = TRUE]
    /\ UNCHANGED <<ingestVars, q, connections, sync_permissions, req>>

\* The outcomes of the finally block.  gmail and quickbooks close a client
\* that their wrapper has already closed in the loop of the sync; outlook has
\* no finally block; drive closes, in a new event loop, a client that was
\* used in a loop that is closed by now, which returns or raises.
CloseOutcomes(job_type) == IF job_type = "drive" THEN BOOLEAN ELSE {TRUE}

\* finally, and the end of the run: a run that ends with an exception is run
\* again while the actor has retries left.
TaskCleanup(j) ==
    /\ j <= Len(task)
    /\ task[j].pc = "cleanup"
    /\ \E close_ok \in CloseOutcomes(sync_jobs[j].job_type) :
        LET raised == task[j].raising \/ ~close_ok
        IN  task' = IF raised /\ task[j].retries < max_retries
                    THEN [task EXCEPT ![j].pc = "queued",
                                      ![j].retries = task[j].retries + 1]
                    ELSE [task EXCEPT ![j].pc = "ended"]
    /\ UNCHANGED <<ingestVars, q, connections, sync_permissions, sync_jobs, req>>

JobIds == 1..MaxJobs

NextJob ==
    \/ \E provider \in valid_providers : Enqueue(provider)
    \/ \E j \in JobIds : TaskStart(j)
    \/ \E j \in JobIds : TaskSync(j)
    \/ \E j \in JobIds : TaskComplete(j)
    \/ \E j \in JobIds : TaskFail(j)
    \/ \E j \in JobIds : TaskCleanup(j)

JobSpec == Init /\ [][NextJob]_vars

\* ------------------------------------------------------------- rank fusion

\* decay_profiles.get(doc_type, default_decay_days)
decay_days(doc_type) ==
    IF doc_type = "email" THEN 30
    ELSE IF doc_type = "attachment" THEN 90
    ELSE default_decay_days

\* The timestamps in use are whole multiples of the longest decay period, so
\* that age_days / decay_days is a whole number for every profile and the
\* power of 0.5 is exact.
Period == 90 * SecondsPerDay

RECURSIVE Pow2(_)
Pow2(n) == IF n <= 0 THEN 1 ELSE 2 * Pow2(n - 1)

\* Scores are kept as integers in units of 1/ScoreScale, which makes every
\* product score * 0.5 ** x of the model a whole number.
ScoreScale == Pow2(3 * MaxPeriods)

DocTypes == {"email", "attachment"}

CandTimestamps == {NoKey, NoTs, 0} \cup {k * Period : k \in 1..MaxPeriods}

\* A candidate as the retriever returns it: a raw similarity score and the
\* chunk's metadata.
CandBodies ==
    [score : {s * ScoreScale : s \in -1..MaxScore},
     created_at_timestamp : CandTimestamps,
     document_type : DocTypes]

WithIds(bodies) ==
    [i \in 1..Len(bodies) |->
        [id |-> i, score |-> bodies[i].score,
         created_at_timestamp |-> bodies[i].created_at_timestamp,
         document_type |-> bodies[i].document_type]]

\* The candidate lists of length n.
CandLists(n) == [1..n -> CandBodies]

\* datetime.now() at the call of the postprocessor.
Nows == {(MaxPeriods - 1) * Period, MaxPeriods * Period}

\* 0.5 ** (age_days / decay_days) applied to a score.
age_days(created_at_ts, now_ts) == (now_ts - created_at_ts) \div SecondsPerDay

Decay(score, x) == IF x >= 0 THEN score \div Pow2(x) ELSE score * Pow2(0 - x)

\* One pass of the loop over the nodes: a node whose timestamp is falsy (None,
\* missing, 0) keeps its score; any other gets score * recency_score.
Boost(node, now_ts) ==
    IF node.created_at_timestamp \in {NoKey, NoTs, 0}
    THEN node
    ELSE [node EXCEPT !.score =
            Decay(@, age_days(node.created_at_timestamp, now_ts)
                        \div decay_days(node.document_type))]

\* nodes.sort(key=lambda x: x.score, reverse=True): a stable sort, equal scores
\* keep the order they came in.
RECURSIVE InsertDesc(_, _)
InsertDesc(x, sorted) ==
    IF sorted = <<>> THEN <<x>>
    ELSE IF Head(sorted).score < x.score
         THEN <<x>> \o sorted
         ELSE <<Head(sorted)>> \o InsertDesc(x, Tail(sorted))

RECURSIVE SortDesc(_, _)
SortDesc(nodes, acc) ==
    IF nodes = <<>> THEN acc ELSE SortDesc(Tail(nodes), InsertDesc(Head(nodes), acc))

\* The logging loops read meta.get(timestamp_key, now_ts) of the first five
\* nodes and subtract it from now_ts: a stored None raises TypeError.
LogRaises(nodes) ==
    \E i \in 1..Len(nodes) : i <= LogTop /\ nodes[i].created_at_timestamp = NoTs

\* DocumentTypeRecencyPostprocessor._postprocess_nodes
PostprocessNodes(nodes, now_ts) ==
    LET sorted == SortDesc([i \in 1..Len(nodes) |-> Boost(nodes[i], now_ts)], <<>>)
    IN  IF nodes = <<>> THEN [raised |-> FALSE, nodes |-> nodes]
        ELSE IF LogRaises(nodes) \/ LogRaises(sorted)
        THEN [raised |-> TRUE, nodes |-> <<>>]
        ELSE [raised |-> FALSE, nodes |-> sorted]

\* query(): the retrieved nodes go to the synthesizer as they were retrieved.
SynthesisNodes(nodes) == nodes

\* The retriever returns its candidates in descending order of similarity.
SimilarityOrdered(nodes) ==
    \A i \in 1..Len(nodes), j \in 1..Len(nodes) : i < j => nodes[i].score >= nodes[j].score

\* A call of the postprocessor (by the query engine retrieve_only goes through).
Postprocess ==
    /\ q = NoQuery
    /\ \E n \in 1..MaxCands, now_ts \in Nows :
        \E bodies \in CandLists(n) :
            q' = [entry |-> "postprocess", input |-> WithIds(bodies), now |-> now_ts,
                  out |-> PostprocessNodes(WithIds(bodies), now_ts)]
    /\ UNCHANGED <<ingestVars, syncVars>>

\* A call of query() that retrieves the candidates nodes, in retrieval order.
QueryRank ==
    /\ q = NoQuery
    /\ \E n \in 1..MaxCands, now_ts \in Nows :
        \E bodies \in CandLists(n) :
            /\ SimilarityOrdered(WithIds(bodies))
            /\ q' = [entry |-> "query_rank", input |-> WithIds(bodies), now |-> now_ts,
                     synthesized |-> SynthesisNodes(WithIds(bodies))]
    /\ UNCHANGED <<ingestVars, syncVars>>

NextRank ==
    \/ Postprocess
    \/ QueryRank
    \/ QueryReturn

RankSpec == Init /\ [][NextRank]_vars

\* ------------------------------------------------------------- time filter

Dates == 1..MaxDate

\* time_filter = None
NoFilter == [kind |-> "none"]

\* time_override = None
NoOverride == [kind |-> "none"]

Overrides == {NoOverride} \cup {[start |-> a, end |-> b] : a \in Dates, b \in Dates}

\* The offset of the server's local time from UTC, in seconds.
TzOffsets == {0, 3600}

\* What self.llm.acomplete(prompt) can come back with.  fence: the reply is
\* wrapped in ``` lines ("block"), is a lone ``` line ("line"), or is bare
\* ("none"); json: what json.loads makes of the text ("invalid": it raises;
\* "array": a value that is not an object; "object"); keys: the keys of the
\* object; dates are day numbers, 0 standing for a text strptime rejects.
DateTexts == 0..MaxDate

ReplyObjects ==
    {r \in [kind : {"text"}, fence : {"none", "block"}, json : {"object"},
            keys : SUBSET {"has_time_filter", "start_date", "end_date"},
            has_time_filter : BOOLEAN, start_date : DateTexts, end_date : DateTexts] :
        /\ "has_time_filter" \notin r.keys => ~r.has_time_filter
        /\ "start_date" \notin r.keys => r.start_date = 0
        /\ "end_date" \notin r.keys => r.end_date = 0}

NoObject(kind, fence, json) ==
    [kind |-> kind, fence |-> fence, json |-> json, keys |-> {},
     has_time_filter |-> FALSE, start_date |-> 0, end_date |-> 0]

Replies ==
    {NoObject("raises", "none", "invalid"), NoObject("text", "line", "invalid")}
    \cup {NoObject("text", f, j) : f \in {"none", "block"}, j \in {"invalid", "array"}}
    \cup ReplyObjects

\* The reply of a call that never asked.
NotAsked == NoObject("unused", "none", "invalid")

\* The handler of _parse_time_filter passing the error on.
OnTimeParseError_Raise == [raised |-> TRUE, value |-> NoFilter]

\* The handler of _parse_time_filter: log a warning, return None.
OnTimeParseError == [raised |-> FALSE, value |-> NoFilter]

\* datetime.strptime(d, '%Y-%m-%d') at 00:00:00 and at 23:59:59 UTC.
UtcDayStart(d) == d * SecondsPerDay
UtcDayEnd(d) == d * SecondsPerDay + (SecondsPerDay - 1)

\* _parse_time_filter
ParseTimeFilter(reply) ==
    IF reply.kind = "raises" THEN OnTimeParseError
    ELSE IF reply.fence = "line" THEN OnTimeParseError       \* split(...)[1]: IndexError
    ELSE IF reply.json = "invalid" THEN OnTimeParseError     \* json.loads raises
    ELSE IF reply.json = "array" THEN OnTimeParseError       \* a list has no .get
    ELSE IF ~("has_time_filter" \in reply.keys /\ reply.has_time_filter)
    THEN [raised |-> FALSE, value |-> NoFilter]
    ELSE IF ~({"start_date", "end_date"} \subseteq reply.keys)
    THEN OnTimeParseError                                    \* KeyError
    ELSE IF reply.start_date = 0 \/ reply.end_date = 0
    THEN OnTimeParseError                                    \* strptime: ValueError
    ELSE [raised |-> FALSE,
          value |-> [kind |-> "range",
                     start_timestamp |-> UtcDayStart(reply.start_date),
                     end_timestamp |-> UtcDayEnd(reply.end_date)]]

\* The override's end taken at the start of the end date.
OverrideFilter_EndAtMidnight(time_override, tz) ==
    [kind |-> "range",
     start_timestamp |-> time_override.start * SecondsPerDay - tz,
     end_timestamp |-> time_override.end * SecondsPerDay - tz]

\* datetime.combine(date, min.time()) and (date, max.time()) in local time,
\* int() of the timestamps.
OverrideFilter(time_override, tz) ==
    [kind |-> "range",
     start_timestamp |-> time_override.start * SecondsPerDay - tz,
     end_timestamp |-> time_override.end * SecondsPerDay + (SecondsPerDay - 1) - tz]

\* The trailing 30 days ending now.
DefaultFilter(now_ts) ==
    [kind |-> "range",
     start_timestamp |-> now_ts - DefaultWindowDays * SecondsPerDay,
     end_timestamp |-> now_ts]

\* Step 1 of query(): the time filter, and whether the LLM was asked for it.
TimeFilter(time_override, reply, now_ts, tz) ==
    IF time_override # NoOverride
    THEN [raised |-> FALSE, llm_called |-> FALSE,
          time_filter |-> OverrideFilter(time_override, tz)]
    ELSE LET parsed == ParseTimeFilter(reply)
         IN  [raised |-> parsed.raised, llm_called |-> TRUE,
              time_filter |-> IF parsed.value = NoFilter
                              THEN DefaultFilter(now_ts) ELSE parsed.value]

\* datetime.now() at the call of query().
QueryNows ==
    {DefaultWindowDays * SecondsPerDay + 2, (MaxDate + DefaultWindowDays) * SecondsPerDay}

\* HybridQueryEngine.query with its time arguments: step 1, then the search
\* and the result as before.  An error raised in step 1 reaches the handler of
\* query() before any search.
EngineQueryTimed(filters, time_override, reply, now_ts, tz, nodes, search_ok) ==
    LET tf == TimeFilter(time_override, reply, now_ts, tz)
        r == EngineQuery(filters, nodes, search_ok)
    IN  [filters |-> filters,
         time_override |-> time_override,
         reply |-> IF tf.llm_called THEN reply ELSE NotAsked,
         now |-> now_ts,
         llm_called |-> tf.llm_called,
         time_filter |-> tf.time_filter,
         searched |-> ~tf.raised /\ r.searched,
         search_failed |-> ~tf.raised /\ r.search_failed,
         search_filter |-> r.search_filter,
         retrieved |-> IF tf.raised THEN {} ELSE r.retrieved,
         source_nodes |-> IF tf.raised THEN {} ELSE r.source_nodes,
         error |-> tf.raised \/ r.error,
         raised |-> r.raised]

\* A call of query() with arguments and a reply drawn from args.
TimedQuery(args) ==
    /\ q = NoQuery
    /\ \E a \in args, search_ok \in BOOLEAN :
        \E nodes \in TopK(Matching(index, FilterList(a.filters)), SIMILARITY_TOP_K) :
            q' = [entry |-> "timed_query", tz |-> a.tz]
                 @@ EngineQueryTimed(a.filters, a.time_override, a.reply, a.now, a.tz,
                                     nodes, search_ok)
    /\ UNCHANGED <<ingestVars, syncVars>>

\* Every reply of the date extraction, every override, every caller's filters.
TimeArgs ==
    [filters : FilterArgs, time_override : Overrides, reply : Replies,
     now : QueryNows, tz : TzOffsets]

\* Queries alone.
NextTime ==
    \/ TimedQuery(TimeArgs)
    \/ QueryReturn

TimeSpec == Init /\ [][NextTime]_vars

\* The replies the runs with ingestion draw from: the call failing, no period
\* found, and each well-formed period.
WindowReplies ==
    {r \in Replies : \/ r.kind = "raises"
                     \/ /\ r.fence = "none" /\ r.json = "object"
                        /\ \/ r.keys = {"has_time_filter"}
                           \/ /\ r.keys = {"has_time_filter", "start_date", "end_date"}
                              /\ r.has_time_filter
                              /\ r.start_date # 0 /\ r.end_date # 0}

WindowArgs ==
    [filters : {[company_id |-> t] : t \in Tenants}, time_override : Overrides,
     reply : WindowReplies, now : QueryNows, tz : {0}]

\* Ingestion, one message per worker, interleaved with time-filtered queries
\* of the tenants.
NextWindow ==
    \/ \E m \in MsgIds : Begin(m, Cardinality(Workers))
    \/ \E m \in MsgIds : ThreadScroll(m)
    \/ \E m \in MsgIds : ThreadDelete(m)
    \/ \E m \in MsgIds : IndexWrite(m)
    \/ TimedQuery(WindowArgs)
    \/ QueryReturn

WindowSpec == Init /\ [][NextWindow]_vars

\* -------------------------------------------------------------- fingerprint

\* A call of should_ingest_document for the content of message m against the
\* documents table as it stands, the lookup failing or not.
ShouldIngest ==
    /\ q = NoQuery
    /\ \E m \in MsgIds, skip_dedupe \in BOOLEAN, lookup_ok \in BOOLEAN :
        LET r == should_ingest_document(documents, Messages[m].company_id,
                                        Messages[m].content, Messages[m].source,
                                        skip_dedupe, lookup_ok)
        IN  q' = [entry |-> "should_ingest", msg |-> m,
                  skip_dedupe |-> skip_dedupe, lookup_ok |-> lookup_ok,
                  should_ingest |-> r[1], content_hash |-> r[2]]
    /\ UNCHANGED <<ingestVars, syncVars>>

\* Ingestion, one message per worker, interleaved with duplicate checks.
NextDedup ==
    \/ \E m \in MsgIds : Begin(m, Cardinality(Workers))
    \/ \E m \in MsgIds : ThreadScroll(m)
    \/ \E m \in MsgIds : ThreadDelete(m)
    \/ \E m \in MsgIds : IndexWrite(m)
    \/ ShouldIngest
    \/ QueryReturn

DedupSpec == Init /\ [][NextDedup]_vars

\* The characters texts are made of.
Chars == {"a", "A", "b", " ", "\t"}

Texts(n) == [1..n -> Chars]

\* normalize_content and compute_content_hash applied to two texts.
Fingerprint ==
    /\ q = NoQuery
    /\ \E n1 \in 0..MaxTextLen, n2 \in 0..MaxTextLen :
        \E t1 \in Texts(n1), t2 \in Texts(n2) :
            q' = [entry |-> "fingerprint", a |-> t1, b |-> t2,
                  na |-> normalize_content(t1), nb |-> normalize_content(t2),
                  ha |-> compute_content_hash(t1), hb |-> compute_content_hash(t2)]
    /\ UNCHANGED <<ingestVars, syncVars>>

NextNorm ==
    \/ Fingerprint
    \/ QueryReturn

NormSpec == Init /\ [][NextNorm]_vars

\* ------------------------------------------------------------------ claims

Threads == {T1, T2}

\* The live chunks of a conversation: what a reader of the index sees of it.
Live(c, th) ==
    {p \in index : p.company_id = c /\ p.thread_id = th /\ p.document_type = "email"}

\* The started calls that ingest an email of thread th of tenant c.
ConvMsgs(c, th) ==
    {m \in Started : /\ Messages[m].company_id = c
                     /\ Messages[m].thread_id = th
                     /\ Messages[m].document_type = "email"}

Latest(S) == CHOOSE m \in S : \A n \in S : Messages[n].ts <= Messages[m].ts

\* C1: thread convergence.  Once every call has returned (here: each with
\* status success and no step of it having raised, the messages of the thread
\* timestamped in pairwise distinct whole seconds), the live chunks of the
\* thread are exactly the chunks of the message with the maximum timestamp.
C1_ThreadConvergence ==
    \A c \in Tenants, th \in Threads :
        LET S == ConvMsgs(c, th)
        IN  ( /\ S # {}
              /\ InFlight = {}
              /\ \A m \in Started : status[m] = "success" /\ failed[m] = {}
              /\ \A m \in S : Messages[m].ts # NoTs
              /\ \A m \in S, n \in S :
                    m # n => IntTimestamp(Messages[m].ts) # IntTimestamp(Messages[n].ts) )
            => Live(c, th) = written[Latest(S)]

\* C2: tenant isolation of results.  Every chunk a query called with
\* filters = {company_id: X} retrieves or returns carries company_id X,
\* whatever the index holds of other tenants.
C2_TenantIsolation ==
    (q.entry = "engine_query" /\ "company_id" \in DOMAIN q.filters)
    => \A p \in q.retrieved \cup q.source_nodes : p.company_id = q.filters.company_id

C2_Witness ==
    /\ q.entry = "engine_query"
    /\ q.filters = [company_id |-> "X"]
    /\ q.retrieved # {}
    /\ \E p \in index : p.company_id = "Y"

\* C3: a query called with filters absent or lacking company_id fails and
\* issues no similarity search.
C3_MissingTenantRejected ==
    (q.entry = "engine_query" /\ "company_id" \notin DOMAIN q.filters)
    => (q.error /\ ~q.searched)

\* C4: every similarity search issued for a request of tenant X through a
\* public entrypoint carries the predicate company_id == X.
C4_SearchCarriesTenant ==
    (q.entry \in Entries /\ q.searched)
    => [key |-> "company_id", value |-> q.tenant] \in q.search_filter

\* C5: dedup idempotence.  No two live Documents of one tenant share a
\* content_hash.
C5_DedupIdempotence ==
    \A d1 \in documents, d2 \in documents :
        (d1.company_id = d2.company_id /\ d1.content_hash = d2.content_hash) => d1 = d2

\* C6: write-before-delete ordering.  Once a thread has live chunks, no step
\* leads to a state in which it has none.
C6_WriteBeforeDelete ==
    [][\A c \in Tenants, th \in Threads : Live(c, th) # {} => Live(c, th)' # {}]_vars

\* C7: supersession never deletes a newer chunk.  A chunk deleted by the
\* supersession step of a message with timestamp T belongs to a message
\* whose timestamp is strictly less than T.
C7_NeverDeletesNewer ==
    \A m \in MsgIds : \A p \in deleted[m] : Messages[p.msg].ts < Messages[m].ts

DedupFailed(m) == failed[m] \cap {"scroll", "compare", "delete"} # {}

\* C8: supersession failure never fails ingestion.  A call whose scroll or
\* delete raised has deleted no chunk, has gone on to the index write, and,
\* unless that write itself failed, has stored its chunks and returned success.
C8_SupersessionFailureTolerated ==
    \A m \in MsgIds :
        (pc[m] = "done" /\ DedupFailed(m))
        => /\ deleted[m] = {}
           /\ "write" \in ops[m]
           /\ ("write" \notin failed[m]
                => (status[m] = "success" /\ written[m] = Points(doc[m])))

C8_Witness ==
    \E m \in MsgIds :
        /\ pc[m] = "done"
        /\ "delete" \in failed[m]
        /\ status[m] = "success"
        /\ written[m] \subseteq index
        /\ \E p \in index : p.id \in toDelete[m]

\* C9: supersession scope.  The chunks deleted by the supersession step of a
\* call carry the call's company_id and thread_id and document_type email.
C9_SupersessionScope ==
    \A m \in MsgIds : \A p \in deleted[m] :
        /\ p.company_id = Messages[m].company_id
        /\ p.thread_id = Messages[m].thread_id
        /\ p.document_type = "email"

C9_Witness ==
    \E m \in MsgIds :
        /\ deleted[m] # {}
        /\ \E p \in index :
            /\ p.created_at_timestamp # NoTs
            /\ IsOlder(p.created_at_timestamp, Messages[m].ts)
            /\ \/ p.company_id # Messages[m].company_id
               \/ p.thread_id # Messages[m].thread_id
               \/ p.document_type # "email"

Standalone(m) ==
    \/ Messages[m].thread_id = <<>>
    \/ Strip(Messages[m].thread_id) = <<>>
    \/ Messages[m].document_type # "email"

\* C10: supersession is a no-op for standalone documents.  A call whose
\* thread_id is missing, empty or whitespace-only, or whose document is not
\* an email, issues no scroll and no delete and removes no chunk.
C10_StandaloneNoOp ==
    \A m \in MsgIds :
        Standalone(m)
        => /\ ops[m] \cap {"scroll", "delete"} = {}
           /\ toDelete[m] = {}
           /\ deleted[m] = {}

C10_Witness ==
    /\ \E m \in MsgIds :
        /\ Messages[m].document_type # "email"
        /\ status[m] = "success"
        /\ \E p \in index :
            /\ p.msg # m
            /\ ScrollFilter(p, m)
            /\ IsOlder(p.created_at_timestamp, Messages[m].ts)
    /\ \E m \in MsgIds :
        /\ Messages[m].thread_id # <<>>
        /\ Strip(Messages[m].thread_id) = <<>>
        /\ status[m] = "success"

\* The decayed score of a candidate, whatever the code made of it.
DecayedScore(node, now_ts) == Boost(node, now_ts).score

Timestamped(node) == node.created_at_timestamp \notin {NoKey, NoTs}

\* The node of a sequence that carries the id.
NodeOf(nodes, id) == nodes[CHOOSE i \in 1..Len(nodes) : nodes[i].id = id]

\* C11: query pipeline order.  The sequence query() hands to synthesis is in
\* descending order of decayed score.
C11_RankedBeforeSynthesis ==
    q.entry = "query_rank"
    => \A i \in 1..Len(q.synthesized), j \in 1..Len(q.synthesized) :
          i < j => DecayedScore(q.synthesized[i], q.now) >= DecayedScore(q.synthesized[j], q.now)

\* C12: decay monotonicity.  Of two candidates of the same document_type with
\* equal raw score, both carrying a timestamp, the older leaves the
\* postprocessor with the strictly lower score.
C12_DecayMonotone ==
    (q.entry = "postprocess" /\ ~q.out.raised)
    => \A a \in 1..Len(q.input), b \in 1..Len(q.input) :
          ( /\ q.input[a].document_type = q.input[b].document_type
            /\ q.input[a].score = q.input[b].score
            /\ Timestamped(q.input[a]) /\ Timestamped(q.input[b])
            /\ q.input[a].created_at_timestamp < q.input[b].created_at_timestamp )
          => NodeOf(q.out.nodes, a).score < NodeOf(q.out.nodes, b).score

\* C13: rank determinism.  Every permutation of the input gives the same
\* output order, and candidates of equal decayed score come out ordered by raw
\* similarity (descending) and then by document id.
C13_RankDeterministic ==
    (q.entry = "postprocess" /\ ~q.out.raised)
    => /\ \A f \in Permutations(1..Len(q.input)) :
            PostprocessNodes([i \in 1..Len(q.input) |-> q.input[f[i]]], q.now) = q.out
       /\ \A i \in 1..Len(q.out.nodes), j \in 1..Len(q.out.nodes) :
            (i < j /\ q.out.nodes[i].score = q.out.nodes[j].score)
            => \/ NodeOf(q.input, q.out.nodes[i].id).score > NodeOf(q.input, q.out.nodes[j].id).score
               \/ /\ NodeOf(q.input, q.out.nodes[i].id).score = NodeOf(q.input, q.out.nodes[j].id).score
                  /\ q.out.nodes[i].id < q.out.nodes[j].id

\* C14: untimestamped candidates are never penalized.  A candidate without
\* created_at_timestamp (the key missing, or stored as None) leaves the
\* postprocessor with its raw score, whatever its document_type.
C14_UntimestampedKeepScore ==
    q.entry = "postprocess"
    => \A a \in 1..Len(q.input) :
          ~Timestamped(q.input[a])
          => /\ ~q.out.raised
             /\ \E i \in 1..Len(q.out.nodes) :
                   q.out.nodes[i].id = a /\ q.out.nodes[i].score = q.input[a].score

\* The replies the fallback is for: the call raised, the text is not the
\* expected structure, the dates are missing or unreadable, or the reply says
\* there is no period.
FallbackReply(r) ==
    \/ r.kind = "raises"
    \/ r.fence = "line"
    \/ r.json # "object"
    \/ "has_time_filter" \notin r.keys
    \/ ~r.has_time_filter
    \/ "start_date" \notin r.keys \/ "end_date" \notin r.keys
    \/ r.start_date \notin Dates \/ r.end_date \notin Dates

\* C15: temporal fallback.  Without an override, a reply that is missing,
\* raises, is malformed, lacks a date or says has_time_filter false gives the
\* time filter [now - 30 days, now], and the query goes on to its search with
\* no error other than the search's own.
C15_TemporalFallback ==
    (q.entry = "timed_query" /\ q.time_override = NoOverride /\ FallbackReply(q.reply))
    => /\ q.time_filter.start_timestamp = q.now - 30 * 86400
       /\ q.time_filter.end_timestamp = q.now
       /\ q.searched
       /\ (q.error => (q.search_failed \/ q.retrieved # {}))

C15_Witness ==
    /\ q.entry = "timed_query"
    /\ q.time_override = NoOverride
    /\ q.reply.kind = "text" /\ q.reply.json = "object"
    /\ q.reply.has_time_filter /\ q.reply.start_date \in Dates
    /\ "end_date" \notin q.reply.keys
    /\ q.time_filter = DefaultFilter(q.now)
    /\ ~q.error

\* C16: override precedence.  With a time_override the time filter runs from
\* the first second of the start date to the last second of the end date (in
\* the server's local time) and the date extraction is not called.
C16_OverridePrecedence ==
    (q.entry = "timed_query" /\ q.time_override # NoOverride)
    => /\ ~q.llm_called
       /\ q.time_filter.start_timestamp = q.time_override.start * 86400 - q.tz
       /\ q.time_filter.end_timestamp = (q.time_override.end + 1) * 86400 - 1 - q.tz

C16_Witness ==
    /\ q.entry = "timed_query"
    /\ q.time_override # NoOverride
    /\ q.time_override.start < q.time_override.end
    /\ q.tz # 0
    /\ q.searched /\ ~q.error

InWindow(p, time_filter) ==
    /\ p.created_at_timestamp # NoTs
    /\ p.created_at_timestamp >= time_filter.start_timestamp
    /\ p.created_at_timestamp <= time_filter.end_timestamp

\* C17: temporal predicate on retrieval.  Every candidate a query retrieves
\* or returns has created_at_timestamp inside the query's time filter, and
\* when no chunk of the tenant lies inside it the result is empty.
C17_TemporalPredicate ==
    q.entry = "timed_query"
    => /\ \A p \in q.retrieved \cup q.source_nodes : InWindow(p, q.time_filter)
       /\ (\A p \in Matching(index, FilterList(q.filters)) : ~InWindow(p, q.time_filter))
             => q.retrieved = {}

\* C18: index failures are surfaced.  A query whose similarity search failed
\* comes back to its caller as an error, and the failure reaches the retry
\* wrapper around the call as an exception.
C18_IndexFailureSurfaced ==
    (q.entry \in {"engine_query", "search_route"} /\ q.search_failed)
    => (q.error /\ q.raised)

\* The rows a lookup that works would have matched.
Duplicates(m) ==
    {d \in documents : /\ d.company_id = Messages[m].company_id
                       /\ d.content_hash = <<"sha256", normalize_content(Messages[m].content)>>}

\* C19: fingerprint lookup fails open.  When the duplicate lookup raises,
\* should_ingest_document returns (True, content_hash), whatever the table
\* holds.
C19_LookupFailsOpen ==
    (q.entry = "should_ingest" /\ ~q.skip_dedupe /\ ~q.lookup_ok)
    => /\ q.should_ingest
       /\ q.content_hash = <<"sha256", normalize_content(Messages[q.msg].content)>>

C19_Witness ==
    /\ q.entry = "should_ingest"
    /\ ~q.skip_dedupe /\ ~q.lookup_ok
    /\ Duplicates(q.msg) # {}
    /\ q.should_ingest

\* The words of a text: its maximal runs of non-whitespace characters, each
\* letter taken without its case.
RECURSIVE Words(_, _, _)
Words(s, cur, acc) ==
    IF s = <<>> THEN (IF cur = <<>> THEN acc ELSE Append(acc, cur))
    ELSE IF Head(s) \in {" ", "\t", "\n"}
         THEN Words(Tail(s), <<>>, IF cur = <<>> THEN acc ELSE Append(acc, cur))
         ELSE Words(Tail(s), Append(cur, IF Head(s) = "A" THEN "a"
                                          ELSE IF Head(s) = "B" THEN "b" ELSE Head(s)), acc)

Key(x) == <<x.company_id, x.source, x.source_id>>

\* The calls whose upsert has been executed.
Upserted == {m \in CallIds : doc[m] # NoDoc}

\* C21: at most one Document row exists for each (company_id, source,
\* source_id), whatever calls of ingest_document_universal have run and
\* however they interleave; an ingestion under a key that has a row replaces
\* the row, so that there are exactly as many rows as keys ingested.
C21_DocumentKeyUnique ==
    /\ \A d1 \in documents : \A d2 \in documents : Key(d1) = Key(d2) => d1 = d2
    /\ Cardinality(documents) = Cardinality({Key(Messages[m]) : m \in Upserted})

\* Two calls have upserted under one key, and the row is the second one's.
C21_Witness ==
    \E m \in Upserted : \E n \in Upserted :
        /\ m # n
        /\ Key(Messages[m]) = Key(Messages[n])
        /\ \E d \in documents : d.msg = n /\ d.id = doc[m].id
        /\ pc[m] = "done"
        /\ Messages[m].content # Messages[n].content

\* C22: a Document row and its chunks are created together: when a call of
\* ingest_document_universal has returned, with any status, it has created
\* the row and chunks of it, or neither; a call that returned status error
\* has left no row without chunks.
C22_CreatedTogether ==
    \A m \in CallIds :
        pc[m] = "done" =>
            ((\E d \in documents : d.msg = m) <=> written[m] # {})

\* C23: when the supersession step of a call has deleted chunks and a
\* Document is left with no chunk in the index, that Document's record is
\* deleted as well: once the call has returned success, no row whose chunks
\* it deleted is without chunks.
C23_OrphanedParentRemoved ==
    \A m \in CallIds : \A p \in deleted[m] :
        (status[m] = "success" /\ ~\E x \in index : x.document_id = p.document_id)
            => ~\E d \in documents : d.id = p.document_id

\* C29: if the index write of a call fails, the call returns status error and
\* the chunks of the thread that were live before the call are still in the
\* index: the call has removed none of them.
C29_FailedWriteKeepsOld ==
    \A m \in CallIds :
        "write" \in failed[m] =>
            /\ status[m] = "error"
            /\ \A p \in deleted[m] : p \in index

\* The emails of one conversation whose row has been upserted.
ThreadEmails(c, th) ==
    {e \in EmailIds \cap Upserted :
        Messages[e].company_id = c /\ Messages[e].thread_id = th}

\* C28: the emails of one thread ingested through ingest_to_cortex map to a
\* single Document row keyed by the canonical id source:thread:thread_id,
\* and once the calls have returned success that row holds the content and
\* the timestamp of the email with the maximum timestamp among them.
C28_ThreadRowHoldsLatest ==
    \A c \in Tenants : \A th \in Threads :
        (/\ ThreadEmails(c, th) # {}
         /\ \A e \in ThreadEmails(c, th) : status[e] = "success")
        => \E d \in documents :
            /\ \A e \in ThreadEmails(c, th) : Key(Messages[e]) = Key(d)
            /\ d.source_id = "gmail:thread:" \o Join(th)
            /\ \A d2 \in documents : Key(d2) = Key(d) => d2 = d
            /\ d.source_created_at = Messages[Latest(ThreadEmails(c, th))].ts
            /\ d.content_hash =
                  compute_content_hash(Messages[Latest(ThreadEmails(c, th))].content)

\* The keys of the dict query() returns: the error result of the handler, the
\* result of an empty retrieval, or the result with the metadata that holds
\* the time range.
ResultKeys(r) ==
    IF r.error THEN {"question", "answer", "error", "source_nodes"}
    ELSE IF r.retrieved = {} THEN {"answer", "source_nodes", "vector_results"}
    ELSE {"question", "answer", "source_nodes", "metadata"}

\* C24: when the retrieval of a query returns at least one candidate and every
\* remote call succeeds, query() returns a result without an error that
\* contains the retrieved chunks (non-empty source_nodes) and the time range
\* used.
C24_SuccessfulSearchResult ==
    (/\ q.entry = "timed_query"
     /\ q.searched /\ ~q.search_failed
     /\ q.reply.kind # "raises"
     /\ q.retrieved # {})
    => (/\ ~q.error
        /\ q.source_nodes # {}
        /\ q.source_nodes \subseteq q.retrieved
        /\ "metadata" \in ResultKeys(q))

\* C27: every chunk written to the index by either ingestion path
\* (ingest_document and ingest_documents_batch) has in its payload the
\* company_id of the Document row it was produced from.
C27_PayloadCarriesTenant ==
    \A p \in index : \A d \in documents :
        d.id = p.document_id => p.company_id = d.company_id

\* The requests that passed the permission check for a provider.
Passed(provider) ==
    {r \in ReqIds : req[r].provider = provider /\ req[r].can_sync}

\* The sync jobs created for a provider.
JobsOf(provider) ==
    {j \in 1..Len(sync_jobs) : sync_jobs[j].job_type = provider}

\* C25: initial sync is one-time.  For one (company_id, provider) with no
\* admin override, however many requests of POST /sync/initial/{provider}
\* arrive and however they interleave, at most one passes the permission
\* check, creates a sync job and enqueues a task; every other request is
\* rejected with 403.
C25_InitialSyncOnce ==
    sync_permissions.grants = 0 =>
        \A provider \in valid_providers :
            /\ Cardinality(Passed(provider)) <= 1
            /\ Cardinality(JobsOf(provider)) <= 1
            /\ \A r \in ReqIds :
                 (req[r].provider = provider /\ req[r].pc = "done"
                    /\ r \notin Passed(provider))
                 => req[r].code = 403

\* C26: the admin override is a one-time unlock.  The grants of
\* can_manual_sync_override = true permit at most one request each that would
\* otherwise be locked, and when a request that was permitted while the
\* override was set returns, the override is cleared (null).
C26_OverrideOneTime ==
    /\ Cardinality({r \in ReqIds : req[r].can_sync /\ req[r].locked_at_check})
          <= sync_permissions.grants
    /\ \A r \in ReqIds :
          (req[r].code = 200 /\ req[r].override_at_check = "true")
          => req[r].override_at_return = "null"

\* C30: sync job lifecycle.  Every run of a sync task that set the job to
\* running has set it to completed or failed when the run ends, whether the
\* sync returned or raised; completed is set only after a sync that returned;
\* and once a job was completed, no later step or retry sets it back to
\* running or failed.
C30_JobLifecycle ==
    \A j \in 1..Len(task) :
        /\ (task[j].pc = "ended" \/ (task[j].pc = "queued" /\ task[j].retries > 0))
           => get_job_status(j) \in {"completed", "failed"}
        /\ get_job_status(j) = "completed" => task[j].completed_after = "returned"
        /\ task[j].was_completed => get_job_status(j) = "completed"

====
